---- MODULE Spec2Model ----
(***************************************************************************)
(* A model of rave-latent-to-ds.py: an OSC listener that hands every       *)
(* accepted /rave/process request to a worker thread running               *)
(* process_audio_files, and every /rave/model/info request to a worker     *)
(* thread running get_model_dimensions.                                    *)
(*                                                                         *)
(* Strings are sequences of one-character strings, so that startswith,     *)
(* endswith, lower, split and splitext are computed, not assumed.          *)
(* An OSC argument is a tagged value: a string, an integer or nil.         *)
(***************************************************************************)
EXTENDS Integers, Sequences, FiniteSets, TLC

VARIABLES
    listener,   \* what the serving loop is doing: "Idle" between messages
    requests,   \* every inbound message so far, in arrival order
    jobs,       \* the process_thread workers, in spawn order
    probes,     \* the model-info process_thread workers, in spawn order
    sent,       \* every outbound OSC message so far, in send order
    fs          \* the output files: path -> file

vars == <<listener, requests, jobs, probes, sent, fs>>

(***************************************************************************)
(* Bounds of the model.                                                    *)
(***************************************************************************)
\* Inbound messages the model lets arrive in one run.
MaxRequests == 2
\* Latent width of the model file the environment holds.
LatentWidth == 2
\* Significand bits of the floating-point format of the reduced coordinates
\* (24 in float32, 53 in float64), rounding to nearest, ties to even.
MantissaBits == 7

(***************************************************************************)
(* Strings.                                                                *)
(***************************************************************************)
MacPrefix == <<"M", "a", "c", "i", "n", "t", "o", "s", "h", " ", "H", "D", ":">>
DotWav == <<".", "w", "a", "v">>
DotJson == <<".", "j", "s", "o", "n">>

StartsWith(s, p) == Len(s) >= Len(p) /\ SubSeq(s, 1, Len(p)) = p

EndsWith(s, p) == Len(s) >= Len(p) /\ SubSeq(s, Len(s) - Len(p) + 1, Len(s)) = p

LowerChar(c) ==
    CASE c = "W" -> "w" [] c = "A" -> "a" [] c = "V" -> "v"
      [] c = "J" -> "j" [] c = "S" -> "s" [] c = "O" -> "o" [] c = "N" -> "n"
      [] OTHER -> c

Lower(s) == [i \in 1..Len(s) |-> LowerChar(s[i])]

\* s.replace("Macintosh HD:", "", 1) under the guard s.startswith("Macintosh HD:")
StripMacPrefix(s) ==
    IF StartsWith(s, MacPrefix) THEN SubSeq(s, Len(MacPrefix) + 1, Len(s)) ELSE s

\* The positions of character c in s.
Positions(s, c) == {i \in 1..Len(s) : s[i] = c}

Max(S) == CHOOSE x \in S : \A y \in S : y <= x
Min(S) == CHOOSE x \in S : \A y \in S : x <= y

\* os.path.basename: what follows the last "/".
Basename(p) ==
    IF Positions(p, "/") = {} THEN p
    ELSE SubSeq(p, Max(Positions(p, "/")) + 1, Len(p))

\* s.split('.')[0]: what precedes the first ".".
SplitFirstDot(s) ==
    IF Positions(s, ".") = {} THEN s
    ELSE SubSeq(s, 1, Min(Positions(s, ".")) - 1)

\* os.path.splitext(name)[0] of a base name: cut at the last "." unless only
\* dots precede it.
SplitextRoot(name) ==
    LET dots == Positions(name, ".")
        last == Max(dots)
    IN  IF dots = {} THEN name
        ELSE IF \A i \in 1..(last - 1) : name[i] = "." THEN name
        ELSE SubSeq(name, 1, last - 1)

\* The working directory of the server process.
Cwd == <<"/", "w">>

IsAbs(p) == StartsWith(p, <<"/">>)

\* os.path.abspath of a relative path with no ".", ".." or empty component.
AbsPath(p) == Cwd \o <<"/">> \o p

(***************************************************************************)
(* OSC arguments.                                                          *)
(***************************************************************************)
OscStr(s) == [t |-> "str", s |-> s]
OscInt(n) == [t |-> "int", n |-> n]
OscNil == [t |-> "nil"]

\* bool(x) of an OSC argument.
Truthy(a) ==
    CASE a.t = "str" -> a.s # <<>>
      [] a.t = "int" -> a.n # 0
      [] OTHER -> FALSE

(***************************************************************************)
(* The environment: model files, audio directories, audio files.           *)
(***************************************************************************)
ModelOk == <<"/", "m", ".", "t", "s">>
ModelNoEncode == <<"/", "n", ".", "t", "s">>
ModelDotted == <<"/", "m", ".", "b", ".", "t", "s">>
ModelMissing == <<"/", "q">>

DirD == <<"/", "d">>
DirL == <<"/", "l">>
DirE == <<"/", "e">>
DirC == <<"/", "c">>
DirS == <<"/", "s">>
DirMissing == <<"/", "x">>

FileA == <<"a", ".", "w", "a", "v">>
FileB == <<"b", ".", "W", "A", "V">>
FileAUpper == <<"a", ".", "W", "A", "V">>
FileL == <<"l", ".", "w", "a", "v">>
FileK == <<"k", ".", "w", "a", "v">>
FileT == <<"n", ".", "t", "x", "t">>

DirExists(d) == d \in {DirD, DirL, DirE, DirC, DirS}

\* os.listdir(d), in the order the filesystem gives.
Listing(d) ==
    CASE d = DirD -> <<FileA, FileT, FileB>>
      [] d = DirL -> <<FileL, FileA>>
      [] d = DirC -> <<FileL, FileK>>
      [] d = DirS -> <<FileA, FileAUpper>>
      [] OTHER -> <<FileT>>

\* Whether librosa can decode the file.
Decodes(name) == name # FileK

\* Encoded frames of the file: its length over the model's compression ratio.
Frames(name) == IF name = FileA THEN 1 ELSE 2

\* Whether torch.jit.load(path) returns a module.
ModelLoads(path) == path \in {ModelOk, ModelDotted, ModelNoEncode}

\* Whether rave.encode returns a tensor.
ModelEncodes(path) == path \in {ModelOk, ModelDotted}

\* rave.encode(x).shape for a (1, 1, samples) input: (1, n_dimensions, frames).
EncodeShape(path, frames) == <<1, LatentWidth, frames>>

(***************************************************************************)
(* Floating point. A float is m * 2^e with m odd, or zero; every operation *)
(* rounds the exact result to MantissaBits significant bits, to nearest,   *)
(* ties to even. Overflow and underflow are out of range of the values     *)
(* used.                                                                   *)
(***************************************************************************)
RECURSIVE Normalized(_, _)
Normalized(m, e) ==
    IF m = 0 THEN [m |-> 0, e |-> 0]
    ELSE IF m % 2 = 0 THEN Normalized(m \div 2, e + 1)
    ELSE [m |-> m, e |-> e]

\* The float of an integer that fits the significand.
Float(n) == Normalized(n, 0)

AbsInt(n) == IF n < 0 THEN -n ELSE n

SignOf(n) == IF n < 0 THEN -1 ELSE 1

\* n / d = (N / D) * 2^(-k) with N / D in [2^(P-1), 2^P): <<N, D, k>>.
RECURSIVE Aligned(_, _, _)
Aligned(n, d, k) ==
    IF n >= 2^MantissaBits * d THEN Aligned(n, 2 * d, k - 1)
    ELSE IF n < 2^(MantissaBits - 1) * d THEN Aligned(2 * n, d, k + 1)
    ELSE <<n, d, k>>

\* (n / d) * 2^e for n, d > 0, rounded.
RoundRatio(n, d, e) ==
    LET a == Aligned(n, d, 0)
        q == a[1] \div a[2]
        r == a[1] - q * a[2]
        up == 2 * r > a[2] \/ (2 * r = a[2] /\ q % 2 = 1)
    IN  Normalized(IF up THEN q + 1 ELSE q, e - a[3])

\* a * b
FMul(a, b) ==
    IF a.m = 0 \/ b.m = 0 THEN Float(0)
    ELSE LET r == RoundRatio(AbsInt(a.m) * AbsInt(b.m), 1, a.e + b.e)
         IN  [r EXCEPT !.m = SignOf(a.m) * SignOf(b.m) * r.m]

\* a / b for b # 0
FDiv(a, b) ==
    IF a.m = 0 THEN Float(0)
    ELSE LET r == RoundRatio(AbsInt(a.m), AbsInt(b.m), a.e - b.e)
         IN  [r EXCEPT !.m = SignOf(a.m) * SignOf(b.m) * r.m]

\* np.abs
FAbs(a) == [a EXCEPT !.m = AbsInt(a.m)]

\* a <= b
FLeq(a, b) ==
    LET low == IF a.e < b.e THEN a.e ELSE b.e
    IN  a.m * 2^(a.e - low) <= b.m * 2^(b.e - low)

\* The literal 5.0 of lines 113 and 125.
Five == Float(5)

(***************************************************************************)
(* process_audio_files, as the steps of one worker.                        *)
(***************************************************************************)
TopicProcess == "/rave/process"
TopicDone == "/rave/processing/done"
TopicInfo == "/rave/model/info"
TopicDimensions == "/rave/model/dimensions"

Tsne == <<"t", "s", "n", "e">>
Umap == <<"u", "m", "a", "p">>
Pca == <<"p", "c", "a">>

\* os.path.join(audio_dir, f)
JoinPath(d, f) == IF EndsWith(d, <<"/">>) THEN d \o f ELSE d \o <<"/">> \o f

\* [join(audio_dir, f) for f in listdir(audio_dir) if f.lower().endswith('.wav')]
AudioFiles(d) ==
    LET names == SelectSeq(Listing(d), LAMBDA f : EndsWith(Lower(f), DotWav))
    IN  [i \in 1..Len(names) |-> JoinPath(d, names[i])]

FileKey(path) == SplitextRoot(Basename(path))

\* numpy squeeze: every axis of length 1 is removed.
Squeeze(shape) == SelectSeq(shape, LAMBDA n : n # 1)

\* The entries of a squeezed rank-1 z of file k: <<k, dimension, frame>>.
RankOneVector(k, shape) ==
    IF shape[2] = 1 THEN [t \in 1..shape[3] |-> <<k, 1, t>>]
    ELSE [d \in 1..shape[2] |-> <<k, d, 1>>]

\* np.mean(z, axis=1) of a rank-2 z of file k: one mean (frame 0) per dimension.
MeanOverFrames(k, zshape) == [d \in 1..zshape[1] |-> <<k, d, 0>>]

\* A dict as the sequence of its items in insertion order; d[key] = val.
DictSet(d, key, val) ==
    IF \E i \in 1..Len(d) : d[i].key = key
    THEN [i \in 1..Len(d) |-> IF d[i].key = key THEN [key |-> key, val |-> val] ELSE d[i]]
    ELSE Append(d, [key |-> key, val |-> val])

DictKeys(d) == {d[i].key : i \in 1..Len(d)}

\* num_dimensions = None
None == 0

NewJob(req, args) ==
    [req |-> req,
     pc |-> "load",
     audio_dir |-> StripMacPrefix(args[1].s),
     model_path |-> StripMacPrefix(args[2].s),
     output_json |-> IF Len(args) > 2 THEN args[3] ELSE OscNil,
     method |-> IF Len(args) > 3 THEN args[4].s ELSE Pca,
     skip_dim_reduction |-> IF Len(args) > 4 THEN Truthy(args[5]) ELSE FALSE,
     audio_files |-> <<>>,
     k |-> 0,
     num_dimensions |-> None,
     latent_data |-> <<>>,
     latent_vectors_all |-> <<>>,
     reduced_by |-> "none",
     fit_transform |-> <<>>,
     latent_reduced |-> <<>>,
     reduced_data |-> <<>>,
     out |-> <<>>]

SetJob(i, j) == jobs' = [jobs EXCEPT ![i] = j]

\* Line 41: torch.jit.load(model_path); an exception ends the thread.
LoadModel(i) ==
    /\ i \in 1..Len(jobs)
    /\ jobs[i].pc = "load"
    /\ SetJob(i, [jobs[i] EXCEPT !.pc = IF ModelLoads(jobs[i].model_path)
                                         THEN "list" ELSE "crashed"])
    /\ UNCHANGED <<listener, requests, probes, sent, fs>>

\* Line 41 on blocked I/O: the load never returns.
HangJob(i) ==
    /\ i \in 1..Len(jobs)
    /\ jobs[i].pc = "load"
    /\ SetJob(i, [jobs[i] EXCEPT !.pc = "hung"])
    /\ UNCHANGED <<listener, requests, probes, sent, fs>>

\* The listing step with lines 50-52 left out: an empty list skips the loop.
ListFilesNoEmptyCheck(i) ==
    /\ i \in 1..Len(jobs)
    /\ jobs[i].pc = "list"
    /\ LET j == jobs[i]
           files == AudioFiles(j.audio_dir)
       IN  SetJob(i, IF ~DirExists(j.audio_dir) THEN [j EXCEPT !.pc = "crashed"]
                     ELSE IF files = <<>> THEN [j EXCEPT !.pc = "reduce"]
                     ELSE [j EXCEPT !.pc = "encode", !.audio_files = files, !.k = 1])
    /\ UNCHANGED <<listener, requests, probes, sent, fs>>

\* Lines 45-57: list the directory, keep the .wav files, return None on none.
ListFiles(i) ==
    /\ i \in 1..Len(jobs)
    /\ jobs[i].pc = "list"
    /\ LET j == jobs[i]
           files == AudioFiles(j.audio_dir)
       IN  SetJob(i, IF ~DirExists(j.audio_dir) THEN [j EXCEPT !.pc = "crashed"]
                     ELSE IF files = <<>> THEN [j EXCEPT !.pc = "returned_none"]
                     ELSE [j EXCEPT !.pc = "encode", !.audio_files = files, !.k = 1])
    /\ UNCHANGED <<listener, requests, probes, sent, fs>>

\* The loop body that leaves the loop after the file it has encoded.
EncodedJobStopsEarly(j) ==
    LET path == j.audio_files[j.k]
        zshape == Squeeze(EncodeShape(j.model_path, Frames(Basename(path))))
        ndim == Len(zshape)
    IN  IF ~Decodes(Basename(path)) \/ ~ModelEncodes(j.model_path) \/ ndim = 0
        THEN [j EXCEPT !.pc = "crashed"]
        ELSE LET z_mean == IF ndim = 1 THEN RankOneVector(j.k, EncodeShape(j.model_path, Frames(Basename(path))))
                           ELSE MeanOverFrames(j.k, zshape)
                 dims == IF j.num_dimensions # None THEN j.num_dimensions
                         ELSE IF ndim = 1 THEN 1 ELSE zshape[1]
             IN  [j EXCEPT !.pc = "reduce",
                           !.k = j.k + 1,
                           !.num_dimensions = dims,
                           !.latent_data = DictSet(j.latent_data, FileKey(path), z_mean),
                           !.latent_vectors_all = Append(j.latent_vectors_all, z_mean)]

\* The loop body inside a try that skips a file it cannot decode or encode.
EncodedJobSkipBadFile(j) ==
    LET path == j.audio_files[j.k]
        zshape == Squeeze(EncodeShape(j.model_path, Frames(Basename(path))))
        ndim == Len(zshape)
        next == IF j.k = Len(j.audio_files) THEN "reduce" ELSE "encode"
    IN  IF ~Decodes(Basename(path)) \/ ~ModelEncodes(j.model_path) \/ ndim = 0
        THEN [j EXCEPT !.pc = next, !.k = j.k + 1]
        ELSE LET z_mean == IF ndim = 1 THEN RankOneVector(j.k, EncodeShape(j.model_path, Frames(Basename(path))))
                           ELSE MeanOverFrames(j.k, zshape)
                 dims == IF j.num_dimensions # None THEN j.num_dimensions
                         ELSE IF ndim = 1 THEN 1 ELSE zshape[1]
             IN  [j EXCEPT !.pc = next,
                           !.k = j.k + 1,
                           !.num_dimensions = dims,
                           !.latent_data = DictSet(j.latent_data, FileKey(path), z_mean),
                           !.latent_vectors_all = Append(j.latent_vectors_all, z_mean)]

\* Lines 60-91, one iteration of the loop over audio_files.
EncodedJob(j) ==
    LET path == j.audio_files[j.k]
        zshape == Squeeze(EncodeShape(j.model_path, Frames(Basename(path))))
        ndim == Len(zshape)
        next == IF j.k = Len(j.audio_files) THEN "reduce" ELSE "encode"
    IN  IF ~Decodes(Basename(path)) \/ ~ModelEncodes(j.model_path) \/ ndim = 0
        THEN [j EXCEPT !.pc = "crashed"]
        ELSE LET z_mean == IF ndim = 1 THEN RankOneVector(j.k, EncodeShape(j.model_path, Frames(Basename(path))))
                           ELSE MeanOverFrames(j.k, zshape)
                 dims == IF j.num_dimensions # None THEN j.num_dimensions
                         ELSE IF ndim = 1 THEN 1 ELSE zshape[1]
             IN  [j EXCEPT !.pc = next,
                           !.k = j.k + 1,
                           !.num_dimensions = dims,
                           !.latent_data = DictSet(j.latent_data, FileKey(path), z_mean),
                           !.latent_vectors_all = Append(j.latent_vectors_all, z_mean)]

EncodeFile(i) ==
    /\ i \in 1..Len(jobs)
    /\ jobs[i].pc = "encode"
    /\ SetJob(i, EncodedJob(jobs[i]))
    /\ UNCHANGED <<listener, requests, probes, sent, fs>>

\* Line 104: n_components = 2, whatever the caller asked for.
NComponents == 2

\* Lines 106-136: the branch taken for a method selector.
ReductionBranch(method) ==
    IF method = Tsne THEN "tsne" ELSE IF method = Umap THEN "umap" ELSE "pca"

\* fit_transform with n_components as the caller of process_audio_files would
\* pass it, one more than the default: line 104 left out.
FitOutputsAsRequested(i, coords) ==
    IF i \in DOMAIN jobs
    THEN [1..Len(jobs[i].latent_vectors_all) -> [1..(NComponents + 1) -> coords]]
    ELSE {}

\* What fit_transform(latent_matrix) may return for job i: one row per row
\* of the matrix, NComponents coordinates each, drawn from coords.
FitOutputs(i, coords) ==
    IF i \in DOMAIN jobs
    THEN [1..Len(jobs[i].latent_vectors_all) -> [1..NComponents -> coords]]
    ELSE {}

\* np.abs(latent_reduced).max()
MaxAbs(matrix) ==
    LET entries == UNION {{FAbs(matrix[r][c]) : c \in DOMAIN matrix[r]} : r \in DOMAIN matrix}
    IN  CHOOSE x \in entries : \A y \in entries : FLeq(y, x)

\* The factor with its operands exchanged: max_val / 5.0.
ScaleFactorInverse(max_val) == FDiv(max_val, Five)

\* 5.0 / max_val
ScaleFactor(max_val) == FDiv(Five, max_val)

\* Lines 110-113 and 122-125: tsne and umap scale by one factor unless the
\* maximum is 0; lines 130-133: pca does not scale.
Scaled(branch, matrix) ==
    IF branch \in {"tsne", "umap"} /\ MaxAbs(matrix) # Float(0)
    THEN [r \in DOMAIN matrix |->
            [c \in DOMAIN matrix[r] |-> FMul(matrix[r][c], ScaleFactor(MaxAbs(matrix)))]]
    ELSE matrix

\* latent_reduced[r].tolist(): the coordinates of row r, each with the row and
\* the column of the matrix it comes from.
ReducedRow(matrix, r) ==
    [c \in DOMAIN matrix[r] |-> [row |-> r, col |-> c, x |-> matrix[r][c]]]

\* for i, file_key in enumerate(latent_data.keys()): reduced_data[file_key] = latent_reduced[i]
ReducedData(latent_data, matrix) ==
    [r \in 1..Len(latent_data) |-> [key |-> latent_data[r].key, val |-> ReducedRow(matrix, r)]]

\* Lines 99-100 with skip_dim_reduction set: no reduction.
SkipReduction(i) ==
    /\ i \in 1..Len(jobs)
    /\ jobs[i].pc = "reduce"
    /\ jobs[i].skip_dim_reduction
    /\ SetJob(i, [jobs[i] EXCEPT !.pc = "resolve"])
    /\ UNCHANGED <<listener, requests, probes, sent, fs>>

\* Lines 100-136: the reduction of the selected branch returns; fit is what
\* fit_transform returned.
Reduce(i, fit) ==
    /\ i \in 1..Len(jobs)
    /\ jobs[i].pc = "reduce"
    /\ ~jobs[i].skip_dim_reduction
    /\ LET branch == ReductionBranch(jobs[i].method)
       IN  SetJob(i, [jobs[i] EXCEPT !.pc = "resolve",
                                     !.reduced_by = branch,
                                     !.fit_transform = fit,
                                     !.latent_reduced = Scaled(branch, fit),
                                     !.reduced_data = ReducedData(jobs[i].latent_data,
                                                                  Scaled(branch, fit))])
    /\ UNCHANGED <<listener, requests, probes, sent, fs>>

\* Lines 100-136: np.array or fit_transform raises; the exception ends the thread.
ReduceRaises(i) ==
    /\ i \in 1..Len(jobs)
    /\ jobs[i].pc = "reduce"
    /\ ~jobs[i].skip_dim_reduction
    /\ SetJob(i, [jobs[i] EXCEPT !.pc = "crashed"])
    /\ UNCHANGED <<listener, requests, probes, sent, fs>>

LatentVectorsName == <<"l", "a", "t", "e", "n", "t", "_", "v", "e", "c", "t", "o", "r", "s", "_">>
TwoDName == <<"2", "D", "_">>
LatentMappingName == <<"_", "l", "a", "t", "e", "n", "t", "_", "m", "a", "p", "p", "i", "n", "g", "_">>

\* The output path with lines 151-152 left out: a relative name stays relative.
OutputPathNotAbsolute(model_path, output_json, method, skip_dim_reduction) ==
    LET base_name == SplitFirstDot(Basename(model_path))
    IN  IF output_json.t = "nil"
        THEN IF skip_dim_reduction
             THEN LatentVectorsName \o base_name \o DotJson
             ELSE TwoDName \o method \o LatentMappingName \o base_name \o DotJson
        ELSE IF EndsWith(Lower(output_json.s), DotJson)
             THEN output_json.s
             ELSE output_json.s \o DotJson

\* The output path with line 147 comparing the name as it is spelled.
OutputPathCaseSensitive(model_path, output_json, method, skip_dim_reduction) ==
    LET base_name == SplitFirstDot(Basename(model_path))
        named == IF output_json.t = "nil"
                 THEN IF skip_dim_reduction
                      THEN LatentVectorsName \o base_name \o DotJson
                      ELSE TwoDName \o method \o LatentMappingName \o base_name \o DotJson
                 ELSE IF EndsWith(output_json.s, DotJson)
                      THEN output_json.s
                      ELSE output_json.s \o DotJson
    IN  IF IsAbs(named) THEN named ELSE AbsPath(named)

\* Lines 139-152: the output path.
OutputPath(model_path, output_json, method, skip_dim_reduction) ==
    LET base_name == SplitFirstDot(Basename(model_path))
        named == IF output_json.t = "nil"
                 THEN IF skip_dim_reduction
                      THEN LatentVectorsName \o base_name \o DotJson
                      ELSE TwoDName \o method \o LatentMappingName \o base_name \o DotJson
                 ELSE IF EndsWith(Lower(output_json.s), DotJson)
                      THEN output_json.s
                      ELSE output_json.s \o DotJson
    IN  IF IsAbs(named) THEN named ELSE AbsPath(named)

ResolvePath(i) ==
    /\ i \in 1..Len(jobs)
    /\ jobs[i].pc = "resolve"
    /\ LET j == jobs[i]
       IN  SetJob(i, [j EXCEPT !.pc = "open",
                               !.out = OutputPath(j.model_path, j.output_json,
                                                  j.method, j.skip_dim_reduction)])
    /\ UNCHANGED <<listener, requests, probes, sent, fs>>

\* output_data with reduced_data stored outside the test of line 100.
OutputDataAlwaysReduced(j) ==
    [cols |-> j.num_dimensions,
     data |-> j.latent_data,
     has_reduced |-> TRUE,
     reduced_data |-> j.reduced_data]

\* Lines 94-97 and 114-136: output_data.
OutputData(j) ==
    [cols |-> j.num_dimensions,
     data |-> j.latent_data,
     has_reduced |-> j.reduced_by # "none",
     reduced_data |-> j.reduced_data]

\* A path nobody has written.
NoFile == [state |-> "absent", content |-> <<>>, writers |-> {}, opened |-> {}]

FileAt(p) == IF p \in DOMAIN fs THEN fs[p] ELSE NoFile

\* A measure of the document's length in bytes.
DocSize(doc) == Len(doc.data) + (IF doc.has_reduced THEN Len(doc.reduced_data) ELSE 0)

\* Line 155: open(output_json, "w") creates or truncates the file.
Truncated(f, i) ==
    [state |-> "empty", content |-> <<>>, writers |-> f.writers \cup {i},
     opened |-> f.opened \cup {i}]

OpenFile(i) ==
    /\ i \in 1..Len(jobs)
    /\ jobs[i].pc = "open"
    /\ fs' = (jobs[i].out :> Truncated(FileAt(jobs[i].out), i)) @@ fs
    /\ SetJob(i, [jobs[i] EXCEPT !.pc = "dump"])
    /\ UNCHANGED <<listener, requests, probes, sent>>

\* Lines 156-157: json.dump from offset 0 of this worker's descriptor, then close.
\* Bytes another writer left beyond the end of this document stay in the file.
Dumped(f, i, doc) ==
    [state |-> IF f.content = <<>> \/ f.content = <<doc>> THEN "complete"
               ELSE IF DocSize(doc) >= DocSize(f.content[1]) THEN "complete"
               ELSE "garbled",
     content |-> <<doc>>,
     writers |-> f.writers,
     opened |-> f.opened \ {i}]

DumpClose(i) ==
    /\ i \in 1..Len(jobs)
    /\ jobs[i].pc = "dump"
    /\ fs' = [fs EXCEPT ![jobs[i].out] = Dumped(fs[jobs[i].out], i, OutputData(jobs[i]))]
    /\ SetJob(i, [jobs[i] EXCEPT !.pc = "notify"])
    /\ UNCHANGED <<listener, requests, probes, sent>>

\* Lines 161-165: osc_client.send_message(osc_address, output_json); return.
Notify(i) ==
    /\ i \in 1..Len(jobs)
    /\ jobs[i].pc = "notify"
    /\ sent' = Append(sent, [topic |-> TopicDone, arg |-> OscStr(jobs[i].out),
                             kind |-> "process", from |-> i])
    /\ SetJob(i, [jobs[i] EXCEPT !.pc = "done"])
    /\ UNCHANGED <<listener, requests, probes, fs>>

(***************************************************************************)
(* get_model_dimensions, as the steps of one worker.                       *)
(***************************************************************************)
NewProbe(req, args) ==
    [req |-> req, pc |-> "load", model_path |-> args[1], latent_dim |-> None]

SetProbe(i, q) == probes' = [probes EXCEPT ![i] = q]

\* Lines 206-218: strip the volume prefix and load the model; a model_path
\* that is no string has no startswith. Any exception reaches line 237.
ProbeLoads(model_path) ==
    model_path.t = "str" /\ ModelLoads(StripMacPrefix(model_path.s))

ProbeLoad(i) ==
    /\ i \in 1..Len(probes)
    /\ probes[i].pc = "load"
    /\ SetProbe(i, [probes[i] EXCEPT !.pc = IF ProbeLoads(probes[i].model_path)
                                            THEN "encode" ELSE "except"])
    /\ UNCHANGED <<listener, requests, jobs, sent, fs>>

\* Line 217 on blocked I/O: the load never returns.
HangProbe(i) ==
    /\ i \in 1..Len(probes)
    /\ probes[i].pc = "load"
    /\ SetProbe(i, [probes[i] EXCEPT !.pc = "hung"])
    /\ UNCHANGED <<listener, requests, jobs, sent, fs>>

\* The probe signal: torch.zeros(1, 1, 48000), one second at 48 kHz.
ProbeFrames == 23

\* The encode step reading z.shape[2], the frame axis, for the latent axis.
ProbeEncodeFrameAxis(i) ==
    /\ i \in 1..Len(probes)
    /\ probes[i].pc = "encode"
    /\ LET q == probes[i]
           path == StripMacPrefix(q.model_path.s)
       IN  SetProbe(i, IF ModelEncodes(path)
                       THEN [q EXCEPT !.pc = "send",
                                      !.latent_dim = EncodeShape(path, ProbeFrames)[3]]
                       ELSE [q EXCEPT !.pc = "except"])
    /\ UNCHANGED <<listener, requests, jobs, sent, fs>>

\* Lines 221-228: encode one second of silence; latent_dim = z.shape[1].
ProbeEncode(i) ==
    /\ i \in 1..Len(probes)
    /\ probes[i].pc = "encode"
    /\ LET q == probes[i]
           path == StripMacPrefix(q.model_path.s)
       IN  SetProbe(i, IF ModelEncodes(path)
                       THEN [q EXCEPT !.pc = "send",
                                      !.latent_dim = EncodeShape(path, ProbeFrames)[2]]
                       ELSE [q EXCEPT !.pc = "except"])
    /\ UNCHANGED <<listener, requests, jobs, sent, fs>>

\* The probe replying on the address of the job's notification.
ProbeSendOnDone(i) ==
    /\ i \in 1..Len(probes)
    /\ probes[i].pc = "send"
    /\ sent' = Append(sent, [topic |-> TopicDone, arg |-> OscInt(probes[i].latent_dim),
                             kind |-> "probe", from |-> i])
    /\ SetProbe(i, [probes[i] EXCEPT !.pc = "done"])
    /\ UNCHANGED <<listener, requests, jobs, fs>>

\* Lines 231-235: send the dimensions and return them.
ProbeSend(i) ==
    /\ i \in 1..Len(probes)
    /\ probes[i].pc = "send"
    /\ sent' = Append(sent, [topic |-> TopicDimensions, arg |-> OscInt(probes[i].latent_dim),
                             kind |-> "probe", from |-> i])
    /\ SetProbe(i, [probes[i] EXCEPT !.pc = "done"])
    /\ UNCHANGED <<listener, requests, jobs, fs>>

\* Line 240: the error code.
ErrorCode == -1

\* The exception handler that only prints, as the job path does.
ProbeExceptSilent(i) ==
    /\ i \in 1..Len(probes)
    /\ probes[i].pc = "except"
    /\ SetProbe(i, [probes[i] EXCEPT !.pc = "done"])
    /\ UNCHANGED <<listener, requests, jobs, sent, fs>>

\* Lines 237-241: the handler of every exception sends the error code.
ProbeExcept(i) ==
    /\ i \in 1..Len(probes)
    /\ probes[i].pc = "except"
    /\ sent' = Append(sent, [topic |-> TopicDimensions, arg |-> OscInt(ErrorCode),
                             kind |-> "probe", from |-> i])
    /\ SetProbe(i, [probes[i] EXCEPT !.pc = "done"])
    /\ UNCHANGED <<listener, requests, jobs, fs>>

(***************************************************************************)
(* The listener and its two handlers.                                      *)
(***************************************************************************)
\* threading.Thread(target=process_thread).start(): the worker joins the pool.
ThreadStart(pool, worker) == Append(pool, worker)

\* The handler joins the thread it started: the listener waits for the worker.
AfterThreadJoin == "Joining"

\* Lines 202 and 260: start() returns at once and the handler returns.
AfterThreadStart == "Idle"

\* The handler that asks for one argument only and takes the last one for the
\* model path.
handle_process_request_one_argument(args) ==
    /\ listener = "Idle"
    /\ Len(requests) < MaxRequests
    /\ requests' = Append(requests, [topic |-> TopicProcess, args |-> args])
    /\ IF Len(args) < 1 \/ args[1].t # "str" \/ args[Len(args)].t # "str"
       THEN UNCHANGED <<listener, jobs>>
       ELSE /\ jobs' = ThreadStart(jobs, NewJob(Len(requests) + 1, <<args[1], args[Len(args)]>>))
            /\ listener' = "Idle"
    /\ UNCHANGED <<probes, sent, fs>>

\* Lines 167-202. A path argument that is no string has no startswith: the
\* handler raises before it starts a thread.
handle_process_request(args) ==
    /\ listener = "Idle"
    /\ Len(requests) < MaxRequests
    /\ requests' = Append(requests, [topic |-> TopicProcess, args |-> args])
    /\ IF Len(args) < 2 \/ args[1].t # "str" \/ args[2].t # "str"
       THEN UNCHANGED <<listener, jobs>>
       ELSE /\ jobs' = ThreadStart(jobs, NewJob(Len(requests) + 1, args))
            /\ listener' = AfterThreadStart
    /\ UNCHANGED <<probes, sent, fs>>

\* Lines 243-260.
handle_model_info_request(args) ==
    /\ listener = "Idle"
    /\ Len(requests) < MaxRequests
    /\ requests' = Append(requests, [topic |-> TopicInfo, args |-> args])
    /\ IF Len(args) = 0
       THEN UNCHANGED <<listener, probes>>
       ELSE /\ probes' = ThreadStart(probes, NewProbe(Len(requests) + 1, args))
            /\ listener' = AfterThreadStart
    /\ UNCHANGED <<jobs, sent, fs>>

(***************************************************************************)
(* The messages the environment sends.                                     *)
(***************************************************************************)
OutRelative == <<"o">>
MethodUnknown == <<"x", "y", "z">>

ProcessMessages ==
    { <<OscStr(DirD)>>,
      <<OscStr(DirD), OscStr(ModelOk)>>,
      <<OscStr(MacPrefix \o DirL), OscStr(MacPrefix \o ModelOk)>>,
      <<OscStr(DirE), OscStr(ModelOk)>>,
      <<OscStr(DirD), OscStr(ModelMissing)>>,
      <<OscStr(DirL), OscStr(ModelOk), OscStr(OutRelative), OscStr(MethodUnknown)>>,
      <<OscStr(DirL), OscStr(ModelOk), OscNil, OscStr(Tsne), OscInt(1)>> }

InfoMessages ==
    { <<>>,
      <<OscStr(MacPrefix \o ModelOk)>>,
      <<OscStr(ModelNoEncode)>>,
      <<OscStr(ModelMissing)>>,
      <<OscInt(7)>> }

\* Coordinates fit_transform returns.
CoordsNarrow == {Float(3)}
CoordsWide == {Float(0), Float(-75), Float(77)}

Init ==
    /\ listener = "Idle"
    /\ requests = <<>>
    /\ jobs = <<>>
    /\ probes = <<>>
    /\ sent = <<>>
    /\ fs = <<>>

Workers == 1..MaxRequests

Next ==
    \/ \E args \in ProcessMessages : handle_process_request(args)
    \/ \E args \in InfoMessages : handle_model_info_request(args)
    \/ \E i \in Workers : LoadModel(i)
    \/ \E i \in Workers : HangJob(i)
    \/ \E i \in Workers : ListFiles(i)
    \/ \E i \in Workers : EncodeFile(i)
    \/ \E i \in Workers : SkipReduction(i)
    \/ \E i \in Workers : \E fit \in FitOutputs(i, CoordsNarrow) : Reduce(i, fit)
    \/ \E i \in Workers : ReduceRaises(i)
    \/ \E i \in Workers : ResolvePath(i)
    \/ \E i \in Workers : OpenFile(i)
    \/ \E i \in Workers : DumpClose(i)
    \/ \E i \in Workers : Notify(i)
    \/ \E i \in Workers : ProbeLoad(i)
    \/ \E i \in Workers : HangProbe(i)
    \/ \E i \in Workers : ProbeEncode(i)
    \/ \E i \in Workers : ProbeSend(i)
    \/ \E i \in Workers : ProbeExcept(i)

Spec == Init /\ [][Next]_vars

(***************************************************************************)
(* The runs of one job: a single /rave/process message, of any shape, and  *)
(* any coordinates out of fit_transform.                                   *)
(***************************************************************************)
OutUpper == <<"o", ".", "J", "S", "O", "N">>
OutAbsolute == <<"/", "t", "/", "o", ".", "j", "s", "o", "n">>

PipelineMessages ==
    {<<OscStr(d), OscStr(m)>> : d \in {DirD, DirL}, m \in {ModelOk, ModelDotted}}
    \cup
    {<<OscStr(d), OscStr(m), o, OscStr(method), skip>> :
        d \in {DirD, DirL, DirS, DirE, DirC},
        m \in {ModelOk, ModelDotted},
        o \in {OscNil, OscStr(OutRelative), OscStr(OutUpper), OscStr(OutAbsolute)},
        method \in {Pca, Tsne, Umap, MethodUnknown},
        skip \in {OscInt(0), OscInt(1)}}

NextPipeline ==
    \/ /\ requests = <<>>
       /\ \E args \in PipelineMessages : handle_process_request(args)
    \/ \E i \in Workers : LoadModel(i)
    \/ \E i \in Workers : ListFiles(i)
    \/ \E i \in Workers : EncodeFile(i)
    \/ \E i \in Workers : SkipReduction(i)
    \/ \E i \in Workers : \E fit \in FitOutputs(i, CoordsWide) : Reduce(i, fit)
    \/ \E i \in Workers : ReduceRaises(i)
    \/ \E i \in Workers : ResolvePath(i)
    \/ \E i \in Workers : OpenFile(i)
    \/ \E i \in Workers : DumpClose(i)
    \/ \E i \in Workers : Notify(i)

PipelineSpec == Init /\ [][NextPipeline]_vars

(***************************************************************************)
(* The runs of jobs that fail: concurrent /rave/process messages naming a  *)
(* missing model, a missing directory, an undecodable file or a model that *)
(* cannot encode, next to jobs that can succeed.                           *)
(***************************************************************************)
FaultMessages ==
    { <<OscStr(DirL), OscStr(ModelOk)>>,
      <<OscStr(DirL), OscStr(ModelOk), OscNil, OscStr(Pca), OscInt(1)>>,
      <<OscStr(DirD), OscStr(ModelMissing)>>,
      <<OscStr(DirMissing), OscStr(ModelOk)>>,
      <<OscStr(DirC), OscStr(ModelOk)>>,
      <<OscStr(DirL), OscStr(ModelNoEncode)>> }

NextFault ==
    \/ \E args \in FaultMessages : handle_process_request(args)
    \/ \E i \in Workers : LoadModel(i)
    \/ \E i \in Workers : HangJob(i)
    \/ \E i \in Workers : ListFiles(i)
    \/ \E i \in Workers : EncodeFile(i)
    \/ \E i \in Workers : SkipReduction(i)
    \/ \E i \in Workers : \E fit \in FitOutputs(i, CoordsNarrow) : Reduce(i, fit)
    \/ \E i \in Workers : ReduceRaises(i)
    \/ \E i \in Workers : ResolvePath(i)
    \/ \E i \in Workers : OpenFile(i)
    \/ \E i \in Workers : DumpClose(i)
    \/ \E i \in Workers : Notify(i)

FaultSpec == Init /\ [][NextFault]_vars

(***************************************************************************)
(* Fairness: the operating system schedules every started thread, so a     *)
(* worker step that stays possible is eventually taken. Nothing obliges    *)
(* the environment to send a message, and a load may block for ever.       *)
(***************************************************************************)
ProbeStep(i) == ProbeLoad(i) \/ ProbeEncode(i) \/ ProbeSend(i) \/ ProbeExcept(i)

\* The runs in which only /rave/model/info messages arrive.
NextInfo ==
    \/ \E args \in InfoMessages : handle_model_info_request(args)
    \/ \E i \in Workers : ProbeLoad(i)
    \/ \E i \in Workers : HangProbe(i)
    \/ \E i \in Workers : ProbeEncode(i)
    \/ \E i \in Workers : ProbeSend(i)
    \/ \E i \in Workers : ProbeExcept(i)

FairInfoSpec ==
    /\ Init
    /\ [][NextInfo]_vars
    /\ \A i \in Workers : WF_vars(ProbeStep(i))

(***************************************************************************)
(* What the claims speak of.                                               *)
(***************************************************************************)
\* The outbound messages worker i of a kind has sent, as positions of sent.
SentBy(kind, i) == {n \in DOMAIN sent : sent[n].kind = kind /\ sent[n].from = i}

\* The message that has just arrived, in a step that receives one.
Received == Len(requests') = Len(requests) + 1
Arrived == requests'[Len(requests')]

\* Directory entries whose name ends in .wav, whatever the case.
Eligible(d) ==
    {n \in 1..Len(Listing(d)) :
        LET f == Listing(d)[n]
        IN  Len(f) >= 4 /\ Lower(SubSeq(f, Len(f) - 3, Len(f))) = DotWav}

\* The stages of a job from the reduction on.
FromArtifact == {"open", "dump", "notify", "done"}

\* C1: the listener never blocks on a job. Whatever the workers are doing,
\* hung ones included, the listener is Idle, and while the run has room for
\* another message both handlers can take one.
C1_ListenerNeverBlocks ==
    /\ listener = "Idle"
    /\ Len(requests) < MaxRequests =>
          /\ ENABLED (\E args \in ProcessMessages : handle_process_request(args))
          /\ ENABLED (\E args \in InfoMessages : handle_model_info_request(args))

\* A job hangs in its load, a worker of a later request has run to its end,
\* and the listener is Idle.
C1_Witness ==
    /\ listener = "Idle"
    /\ \E i \in DOMAIN jobs :
          /\ jobs[i].pc = "hung"
          /\ \/ \E q \in DOMAIN probes : probes[q].req > jobs[i].req /\ probes[q].pc = "done"
             \/ \E k \in DOMAIN jobs : jobs[k].req > jobs[i].req /\ jobs[k].pc = "done"

\* C2: a job that reaches the end of the pipeline has sent exactly one
\* message, on /rave/processing/done, carrying the absolute path it resolved
\* and wrote; a job that has not reached the end has sent nothing; and a job
\* that has written its artifact can always send its notification.
C2_OneDoneNotification ==
    \A i \in DOMAIN jobs :
        /\ jobs[i].pc = "done" =>
              /\ Cardinality(SentBy("process", i)) = 1
              /\ \A n \in SentBy("process", i) :
                    /\ sent[n].topic = TopicDone
                    /\ sent[n].arg = OscStr(jobs[i].out)
                    /\ IsAbs(sent[n].arg.s)
                    /\ i \in FileAt(sent[n].arg.s).writers
        /\ jobs[i].pc # "done" => SentBy("process", i) = {}
        /\ jobs[i].pc = "notify" => ENABLED Notify(i)

\* A job given a relative output name is done and has notified.
C2_Witness ==
    \E i \in DOMAIN jobs :
        /\ jobs[i].pc = "done"
        /\ jobs[i].output_json = OscStr(OutRelative)
        /\ SentBy("process", i) # {}

\* C3: whenever a completion notification carrying path P is sent, the file
\* at P holds a complete artifact.
C3_CompleteWhenNotified ==
    [][(Len(sent') = Len(sent) + 1 /\ sent'[Len(sent')].topic = TopicDone)
          => fs'[sent'[Len(sent')].arg.s].state = "complete"]_vars

\* C4: an output path is written by one job only.
C4_WrittenOnce ==
    \A p \in DOMAIN fs : Cardinality(fs[p].writers) <= 1

\* C5: a job whose directory holds no .wav file writes no artifact and sends
\* no notification: it never goes past the listing.
C5_EmptyDirectoryAborts ==
    \A i \in DOMAIN jobs :
        (DirExists(jobs[i].audio_dir) /\ Eligible(jobs[i].audio_dir) = {}) =>
            /\ jobs[i].pc \in {"load", "hung", "crashed", "list", "returned_none"}
            /\ SentBy("process", i) = {}
            /\ \A p \in DOMAIN fs : i \notin fs[p].writers

\* A job over a directory without .wav files has returned None.
C5_Witness ==
    \E i \in DOMAIN jobs :
        /\ jobs[i].pc = "returned_none"
        /\ Eligible(jobs[i].audio_dir) = {}

\* C6: a process request with fewer than 2 arguments starts no worker, writes
\* nothing, sends nothing and leaves the listener Idle.
C6_MalformedDropped ==
    [][(Received /\ Arrived.topic = TopicProcess /\ Len(Arrived.args) < 2)
          => (UNCHANGED <<jobs, probes, sent, fs>> /\ listener' = "Idle")]_vars

\* A one-argument request was dropped and the valid request after it ran to
\* its notification.
C6_Witness ==
    /\ Len(requests) >= 2
    /\ requests[1].topic = TopicProcess
    /\ Len(requests[1].args) = 1
    /\ \E i \in DOMAIN jobs : jobs[i].req = 2 /\ jobs[i].pc = "done"

\* Whether a probe of this argument succeeds: a string naming a model that
\* loads and encodes.
ProbeSucceeds(a) ==
    /\ a.t = "str"
    /\ ModelLoads(StripMacPrefix(a.s))
    /\ ModelEncodes(StripMacPrefix(a.s))

\* C7: a probe sends at most one message and, once it is over, exactly one, on
\* /rave/model/dimensions: the latent width if the probe succeeds and -1 if
\* the normalization, the load or the encode fails. No probe ends in a crash.
C7_ProbeRepliesOnce ==
    \A i \in DOMAIN probes :
        /\ probes[i].pc \in {"load", "hung", "encode", "send", "except", "done"}
        /\ Cardinality(SentBy("probe", i)) <= 1
        /\ probes[i].pc = "done" <=> SentBy("probe", i) # {}
        /\ \A n \in SentBy("probe", i) :
              /\ sent[n].topic = TopicDimensions
              /\ sent[n].arg.t = "int"
              /\ ProbeSucceeds(probes[i].model_path) => sent[n].arg.n = LatentWidth
              /\ ~ProbeSucceeds(probes[i].model_path) => sent[n].arg.n = -1

\* One probe has answered the width and another, given no string, -1.
C7_Witness ==
    \E i, k \in DOMAIN probes :
        /\ probes[i].pc = "done" /\ ProbeSucceeds(probes[i].model_path)
        /\ probes[k].pc = "done" /\ probes[k].model_path.t = "int"
        /\ \E n \in SentBy("probe", k) : sent[n].arg.n = -1

\* C8: every message on /rave/model/info starts a probe that will answer.
C8_EveryInfoRequestProbed ==
    [][(Received /\ Arrived.topic = TopicInfo) => Len(probes') = Len(probes) + 1]_vars

\* C8, amended: every message on /rave/model/info that carries an argument
\* starts a probe, and every probe started answers unless its load blocks
\* for ever.
C8_InfoWithArgumentAnswered ==
    /\ [][(Received /\ Arrived.topic = TopicInfo /\ Len(Arrived.args) >= 1)
             => Len(probes') = Len(probes) + 1]_vars
    /\ \A i \in Workers :
          (i \in DOMAIN probes) ~>
              (i \in DOMAIN probes /\ (probes[i].pc = "hung" \/ SentBy("probe", i) # {}))

\* A probe of a path that names no model has answered.
C8_Witness ==
    \E i \in DOMAIN probes :
        /\ probes[i].model_path = OscStr(ModelMissing)
        /\ \E n \in SentBy("probe", i) : sent[n].topic = TopicDimensions

KnownMethods == {Pca, Tsne, Umap}

\* C9: a job whose method is none of pca, tsne, umap, and which does not skip
\* the reduction, runs no reduction, writes no artifact and sends nothing.
C9_UnknownMethodFailsFast ==
    \A i \in DOMAIN jobs :
        (jobs[i].method \notin KnownMethods /\ ~jobs[i].skip_dim_reduction) =>
            /\ jobs[i].reduced_by = "none"
            /\ jobs[i].pc \notin {"resolve"} \cup FromArtifact
            /\ SentBy("process", i) = {}

\* The File Identifiers of the eligible files of a directory.
FileIdentifiers(d) ==
    {LET f == Listing(d)[n] IN SubSeq(f, 1, Len(f) - 4) : n \in Eligible(d)}

\* C10: in every artifact a job produces, the keys of data are the File
\* Identifiers of the eligible files and every vector is cols long.
C10_KeysAndLengths ==
    \A i \in DOMAIN jobs :
        jobs[i].pc \in {"notify", "done"} =>
            LET doc == OutputData(jobs[i])
            IN  /\ DictKeys(doc.data) = FileIdentifiers(jobs[i].audio_dir)
                /\ \A r \in DOMAIN doc.data : Len(doc.data[r].val) = doc.cols

\* The jobs that have written their artifact.
Written == {i \in DOMAIN jobs : jobs[i].pc \in {"notify", "done"}}

\* C11: the cols of every artifact is the latent width of the job's model,
\* whether the first file encoded to one frame (rank 1) or to several.
C11_ColsIsLatentWidth ==
    \A i \in Written :
        OutputData(jobs[i]).cols = EncodeShape(jobs[i].model_path, Frames(FileA))[2]

\* C12: in every artifact with reduced coordinates each eligible file has a
\* key of its own in data, and the row stored at reduced_data[k] is the row of
\* the latent matrix that holds the vector stored at data[k].
C12_UniqueKeysRowCorrespondence ==
    \A i \in Written :
        LET doc == OutputData(jobs[i])
        IN  doc.has_reduced =>
                /\ Len(doc.data) = Cardinality(Eligible(jobs[i].audio_dir))
                /\ \A n \in DOMAIN doc.reduced_data : \A r \in DOMAIN doc.data :
                        doc.data[r].key = doc.reduced_data[n].key =>
                            \A c \in DOMAIN doc.reduced_data[n].val :
                                jobs[i].latent_vectors_all[doc.reduced_data[n].val[c].row]
                                    = doc.data[r].val

\* The skip flag of a /rave/process message: its fifth argument, if any.
SkipFlag(args) == Len(args) > 4 /\ Truthy(args[5])

\* C13: the artifact a job has written holds reduced_data exactly if the skip
\* flag of the job's request was false, and then the keys of reduced_data are
\* the keys of data, in the same order.
C13_ReducedIffNotSkipped ==
    \A i \in Written :
        LET doc == fs[jobs[i].out].content[1]
        IN  /\ doc.has_reduced <=> ~SkipFlag(requests[jobs[i].req].args)
            /\ doc.has_reduced =>
                    /\ Len(doc.reduced_data) = Len(doc.data)
                    /\ \A n \in DOMAIN doc.data : doc.reduced_data[n].key = doc.data[n].key

C13_Witness ==
    \E i \in Written :
        /\ ~SkipFlag(requests[jobs[i].req].args)
        /\ Len(fs[jobs[i].out].content[1].reduced_data) > 1

Reduced == {i \in DOMAIN jobs : jobs[i].reduced_by # "none"}

\* C16 as stated: after tsne or umap the largest absolute coordinate is 5.0
\* unless the largest before scaling is 0, and then nothing changes; pca
\* changes nothing.
C16_ScaledMaxIsFive ==
    \A i \in Reduced :
        LET pre == jobs[i].fit_transform
            post == jobs[i].latent_reduced
        IN  IF jobs[i].reduced_by = "pca" \/ MaxAbs(pre) = Float(0)
            THEN post = pre
            ELSE MaxAbs(post) = Five

\* The distance between neighbouring floats around 5.0.
FiveUlp == [m |-> 1, e |-> 3 - MantissaBits]

\* a as a multiple of 2^low, for low <= a.e.
Units(a, low) == a.m * 2^(a.e - low)

\* x is 5.0 or one of its two neighbours.
NearFive(x) ==
    LET low == Min({x.e, FiveUlp.e})
    IN  AbsInt(Units(x, low) - Units(Five, low)) <= Units(FiveUlp, low)

\* C16, amended: after tsne or umap every coordinate is the rounded product
\* of the coordinate before scaling and one factor, the rounded 5.0 / max, and
\* the largest absolute coordinate is 5.0 or a neighbouring float, unless the
\* largest before scaling is 0, and then nothing changes; pca changes nothing.
\* The coordinates of reduced_data are those of the scaled matrix.
C16_ScaledMaxNearFive ==
    \A i \in Reduced :
        LET pre == jobs[i].fit_transform
            post == jobs[i].latent_reduced
        IN  /\ IF jobs[i].reduced_by = "pca" \/ MaxAbs(pre) = Float(0)
               THEN post = pre
               ELSE /\ NearFive(MaxAbs(post))
                    /\ \E f \in {FDiv(Five, MaxAbs(pre))} :
                          \A r \in DOMAIN pre : \A c \in DOMAIN pre[r] :
                              post[r][c] = FMul(pre[r][c], f)
            /\ \A n \in DOMAIN jobs[i].reduced_data :
                  \A c \in DOMAIN jobs[i].reduced_data[n].val :
                      LET v == jobs[i].reduced_data[n].val[c]
                      IN  v.x = post[v.row][v.col]

\* A written tsne artifact whose largest coordinate is next to 5.0, not 5.0.
C16_Witness ==
    \E i \in Reduced \cap Written :
        /\ jobs[i].reduced_by = "tsne"
        /\ MaxAbs(jobs[i].fit_transform) # Float(0)
        /\ MaxAbs(jobs[i].latent_reduced) # Five
        /\ NearFive(MaxAbs(jobs[i].latent_reduced))

\* The name C17 gives the artifact of a request, before it is made absolute.
ExpectedName(args) ==
    LET model == Basename(StripMacPrefix(args[2].s))
        base == IF \E n \in DOMAIN model : model[n] = "."
                THEN SubSeq(model, 1, (CHOOSE n \in DOMAIN model :
                        model[n] = "." /\ \A k \in 1..(n - 1) : model[k] # ".") - 1)
                ELSE model
        method == IF Len(args) > 3 THEN args[4].s ELSE Pca
        ext == Len(DotJson)
    IN  IF Len(args) < 3 \/ args[3] = OscNil
        THEN IF SkipFlag(args)
             THEN LatentVectorsName \o base \o DotJson
             ELSE TwoDName \o method \o LatentMappingName \o base \o DotJson
        ELSE LET given == args[3].s
             IN  IF Len(given) >= ext
                    /\ Lower(SubSeq(given, Len(given) - ext + 1, Len(given))) = DotJson
                 THEN given
                 ELSE given \o DotJson

\* C17: the path a job resolves is the name the request determines, as it is
\* if it is absolute and under the working directory otherwise; it is an
\* absolute path, the path of the file the job opens and writes, and the
\* argument of the job's notification.
C17_OutputPathOfRequest ==
    \A i \in DOMAIN jobs :
        jobs[i].pc \in FromArtifact =>
            LET name == ExpectedName(requests[jobs[i].req].args)
                path == IF name[1] = "/" THEN name ELSE Cwd \o <<"/">> \o name
            IN  /\ jobs[i].out = path
                /\ jobs[i].out[1] = "/"
                /\ jobs[i].pc # "open" =>
                        /\ path \in DOMAIN fs
                        /\ i \in fs[path].writers
                /\ \A n \in SentBy("process", i) : sent[n].arg = OscStr(path)

\* A notified job whose request named the output o.JSON.
C17_Witness ==
    \E i \in Written :
        /\ Len(requests[jobs[i].req].args) > 2
        /\ requests[jobs[i].req].args[3] = OscStr(OutUpper)
        /\ jobs[i].out = Cwd \o <<"/">> \o OutUpper
        /\ SentBy("process", i) # {}

\* The inputs on which a job meets an error: a model that does not load, a
\* directory that cannot be listed, an eligible file that does not decode, a
\* model that cannot encode the eligible files there are.
Failing(j) ==
    \/ ~ModelLoads(j.model_path)
    \/ ~DirExists(j.audio_dir)
    \/ \E n \in Eligible(j.audio_dir) : ~Decodes(Listing(j.audio_dir)[n])
    \/ Eligible(j.audio_dir) # {} /\ ~ModelEncodes(j.model_path)

\* A step of job worker i.
JobStep(i) ==
    \/ LoadModel(i)
    \/ ListFiles(i)
    \/ EncodeFile(i)
    \/ SkipReduction(i)
    \/ \E fit \in FitOutputs(i, CoordsNarrow) : Reduce(i, fit)
    \/ ResolvePath(i)
    \/ OpenFile(i)
    \/ DumpClose(i)
    \/ Notify(i)

\* Where a job rests: ended by an exception, blocked in the load, returned.
AtRest == {"crashed", "hung", "returned_none", "done"}

\* C15: a job that meets an error, at the load, the listing, any file or the
\* reduction, has opened no file and sent nothing, and a job whose inputs
\* make it fail never gets to the artifact; the listener stays Idle and every
\* other worker that is not at rest can take its next step.
C15_ErrorAbortsJobOnly ==
    /\ listener = "Idle"
    /\ \A i \in DOMAIN jobs :
          /\ (jobs[i].pc = "crashed" \/ Failing(jobs[i])) =>
                /\ jobs[i].pc \in {"load", "hung", "list", "encode", "crashed"}
                /\ SentBy("process", i) = {}
                /\ \A p \in DOMAIN fs : i \notin fs[p].writers
          /\ jobs[i].pc \notin AtRest => ENABLED JobStep(i)

\* A job ended by its second file, with the first file's vector in memory,
\* next to a job that has written and notified.
C15_Witness ==
    \E i, k \in DOMAIN jobs :
        /\ jobs[i].pc = "crashed"
        /\ jobs[i].latent_data # <<>>
        /\ jobs[k].pc = "done"
        /\ SentBy("process", k) # {}
        /\ fs[jobs[k].out].state = "complete"

\* The stages of a job, in the order of the code.
Stages == <<"load", "list", "encode", "reduce", "resolve", "open", "dump", "notify", "done">>

StageOf(pc) == CHOOSE n \in DOMAIN Stages : Stages[n] = pc

\* All files of job j are encoded, in the order of the listing.
AllEncoded(j) ==
    /\ j.audio_files = AudioFiles(j.audio_dir)
    /\ j.k = Len(j.audio_files) + 1
    /\ Len(j.latent_vectors_all) = Len(j.audio_files)
    /\ \A n \in DOMAIN j.latent_vectors_all : \A d \in DOMAIN j.latent_vectors_all[n] :
          j.latent_vectors_all[n][d][1] = n

\* What a step may do to job i under C18.
InOrder(i) ==
    /\ jobs'[i].pc # jobs[i].pc =>
          /\ jobs[i].pc \notin AtRest
          /\ jobs'[i].pc \in {"crashed", "hung", "returned_none"}
                \/ StageOf(jobs'[i].pc) = StageOf(jobs[i].pc) + 1
    /\ (jobs[i].pc = "encode" /\ jobs'[i] # jobs[i] /\ jobs'[i].pc # "crashed") =>
          /\ jobs'[i].k = jobs[i].k + 1
          /\ Len(jobs'[i].latent_vectors_all) = jobs[i].k
    /\ (jobs[i].pc # "reduce" /\ jobs'[i].pc = "reduce") => AllEncoded(jobs'[i])
    /\ (\E p \in DOMAIN fs' : i \in fs'[p].writers /\ (p \notin DOMAIN fs \/ fs'[p] # fs[p])) =>
          \/ jobs[i].pc \in {"open", "dump"} /\ AllEncoded(jobs[i])
          \/ \E k \in DOMAIN jobs : k # i /\ jobs'[k] # jobs[k]
    /\ SentBy("process", i)' # SentBy("process", i) =>
          /\ jobs[i].pc = "notify"
          /\ jobs'[i].pc = "done"
          /\ jobs[i].out \in DOMAIN fs /\ i \in fs[jobs[i].out].writers

\* C18: every step moves a job to the next stage or ends it, never back and
\* never past a stage; the loop encodes one file per step in the order of the
\* listing and the reduction starts when all are encoded; a job writes a file
\* only in its write stage, after all its files are encoded; the notification
\* is sent by the step that ends the job.
C18_StagesInOrder == [][\A i \in DOMAIN jobs : InOrder(i)]_vars

\* Two jobs have notified, the one started second first.
C18_Witness ==
    /\ Len(sent) > 1
    /\ \E a, b \in DOMAIN jobs :
          /\ jobs[a].req < jobs[b].req
          /\ sent[1] = [topic |-> TopicDone, arg |-> OscStr(jobs[b].out),
                         kind |-> "process", from |-> b]
          /\ sent[Len(sent)].kind = "process" /\ sent[Len(sent)].from = a

\* The messages sent on /rave/processing/done, as positions of sent.
DoneMessages == {n \in DOMAIN sent : sent[n].topic = TopicDone}

\* The /rave/process requests received with two arguments or more.
Accepted == {n \in DOMAIN requests :
                requests[n].topic = TopicProcess /\ Len(requests[n].args) >= 2}

\* C19: there are no more done messages than accepted process requests; each
\* names a path that a started job has resolved, opened and written to; jobs
\* send on /rave/processing/done only and probes on /rave/model/dimensions only.
C19_NoSpuriousCompletion ==
    /\ Cardinality(DoneMessages) <= Cardinality(Accepted)
    /\ \A n \in DoneMessages :
          \E i \in Written :
              /\ jobs[i].req \in Accepted
              /\ sent[n].arg = OscStr(jobs[i].out)
              /\ jobs[i].out \in DOMAIN fs
              /\ i \in fs[jobs[i].out].writers \ fs[jobs[i].out].opened
    /\ \A n \in DOMAIN sent :
          /\ sent[n].kind = "process" => sent[n].topic = TopicDone
          /\ sent[n].kind = "probe" => sent[n].topic = TopicDimensions

\* A job has notified and a probe has replied.
C19_Witness ==
    /\ DoneMessages # {}
    /\ \E n \in DOMAIN sent : sent[n].kind = "probe"
    /\ \E i \in DOMAIN jobs : jobs[i].pc = "done"

====
